---- MODULE Spec2Model ----
(***************************************************************************)
(* Model of entirius_pylib_template/template.py: the TemplateConfig        *)
(* dataclass, hello_entirius, validate_input and process_data.             *)
(*                                                                         *)
(* Python values are tagged records [type |-> <type name>, val |-> ...].   *)
(* A text (str) is a sequence of one-character strings.  A list is a       *)
(* sequence of values.  A dict is a sequence of <<key, value>> entries in  *)
(* insertion order, with pairwise distinct keys.                           *)
(***************************************************************************)
EXTENDS Integers, Sequences, FiniteSets, TLC

VARIABLES arg, cfg, result

vars == <<arg, cfg, result>>

(* ---------------------------- bounds ----------------------------------- *)

MaxLen == 2     \* longest text drawn as an input
MaxItems == 2   \* most elements of a list / entries of a dict drawn as input
MaxBound == 2   \* largest max_length / min_length passed to TemplateConfig

(* ---------------------------- values ----------------------------------- *)

\* "a" stands for the characters of [a-zA-Z0-9_-]; " " and "\n" are
\* whitespace for str.strip(); "\n" is the character "$" treats specially.
Alphabet == {"a", " ", "\n"}

Whitespace == {" ", "\n"}

Str(s) == [type |-> "str", val |-> s]

IntValue == [type |-> "int", val |-> 123]

NoneValue == [type |-> "NoneType"]

List(items) == [type |-> "list", val |-> items]

Dict(entries) == [type |-> "dict", val |-> entries]

IsStr(v) == v.type = "str"

SeqsUpTo(S, n) == UNION {[1..k -> S] : k \in 0..n}

Texts == {Str(s) : s \in SeqsUpTo(Alphabet, MaxLen)}

\* The texts drawn as list elements and dict keys: a valid character and a
\* whitespace character are enough to make them valid, invalid, or equal
\* after stripping.
ElemAlphabet == {"a", " "}

ElemTexts == {Str(s) : s \in SeqsUpTo(ElemAlphabet, MaxLen)}

Elements == ElemTexts \cup {IntValue}

\* The value stored under the i-th entry of an input dict: values are passed
\* through unvalidated, so one value of a different kind per position.
DictValueAt(i) ==
    IF i = 1 THEN Str(<<"a">>)
    ELSE IF i = 2 THEN IntValue
    ELSE IF i = 3 THEN List(<<>>)
    ELSE NoneValue

Lists == {List(items) : items \in SeqsUpTo(Elements, MaxItems)}

KeySeqs == {ks \in SeqsUpTo(Elements, MaxItems) :
              \A i, j \in 1..Len(ks) : i # j => ks[i] # ks[j]}

Dicts == {Dict([i \in 1..Len(ks) |-> <<ks[i], DictValueAt(i)>>]) : ks \in KeySeqs}

Scalars == Texts \cup {IntValue, NoneValue}

Args == Scalars \cup Lists \cup Dicts

AllowedClasses == {{"a"}, {"a", " "}}

(* ---------------------------- str.strip -------------------------------- *)

RECURSIVE LStrip(_)
LStrip(s) ==
    IF s # <<>> /\ Head(s) \in Whitespace THEN LStrip(Tail(s)) ELSE s

RECURSIVE RStrip(_)
RStrip(s) ==
    IF s # <<>> /\ s[Len(s)] \in Whitespace
    THEN RStrip(SubSeq(s, 1, Len(s) - 1))
    ELSE s

Strip(s) == RStrip(LStrip(s))

(* ---------------------------- errors ----------------------------------- *)

TemplateError(msg) == [raised |-> TRUE, ret |-> [type |-> "TemplateError", val |-> msg]]

Return(v) == [raised |-> FALSE, ret |-> v]

(* ---------------------------- TemplateConfig --------------------------- *)

DefaultMaxLength == 100

DefaultMinLength == 1

DefaultAllowedChars == {"a"}

ConfigObject(max, min, allowed, strip) ==
    [type |-> "TemplateConfig", max_length |-> max, min_length |-> min,
     allowed_chars |-> allowed, strip_whitespace |-> strip]

TemplateConfigLE(max, min, allowed, strip) ==
    IF max <= min
    THEN TemplateError("max_length must be greater than or equal to min_length")
    ELSE Return(ConfigObject(max, min, allowed, strip))

\* TemplateConfig(...): the generated __init__ followed by __post_init__.
TemplateConfig(max, min, allowed, strip) ==
    IF max < min
    THEN TemplateError("max_length must be greater than or equal to min_length")
    ELSE Return(ConfigObject(max, min, allowed, strip))

DefaultConfig ==
    TemplateConfig(DefaultMaxLength, DefaultMinLength, DefaultAllowedChars, TRUE).ret

\* The configurations a caller can have constructed, or None for an omitted one.
Configs ==
    {NoneValue} \cup
    {TemplateConfig(max, min, allowed, strip).ret :
        <<max, min, allowed, strip>> \in
            {p \in (0..MaxBound) \X (0..MaxBound) \X AllowedClasses \X BOOLEAN :
                ~TemplateConfig(p[1], p[2], p[3], p[4]).raised}}

\* "if config is None: config = TemplateConfig()"
ConfigOrDefault(config) == IF config = NoneValue THEN DefaultConfig ELSE config

(* ---------------------------- hello_entirius --------------------------- *)

World == <<"W", "o", "r", "l", "d">>

HelloPrefix == <<"H", "e", "l", "l", "o", ",", " ">>

HelloSuffix == <<"!", " ", "W", "e", "l", "c", "o", "m", "e", " ", "t", "o", " ",
                 "E", "n", "t", "i", "r", "i", "u", "s", ".">>

hello_entirius_falsy(name) ==
    LET n == IF name = NoneValue \/ name = Str(<<>>) THEN Str(World) ELSE name
    IN  IF ~IsStr(n)
        THEN TemplateError("Name must be a string")
        ELSE Return(Str(HelloPrefix \o n.val \o HelloSuffix))

hello_entirius(name) ==
    LET n == IF name = NoneValue THEN Str(World) ELSE name
    IN  IF ~IsStr(n)
        THEN TemplateError("Name must be a string")
        ELSE Return(Str(HelloPrefix \o n.val \o HelloSuffix))

(* ---------------------------- validate_input --------------------------- *)

ReMatchStar(allowed, s) ==
    LET n == Len(s)
    IN  \/ \A i \in 1..n : s[i] \in allowed
        \/ n >= 1 /\ s[n] = "\n" /\ \A i \in 1..(n - 1) : s[i] \in allowed

\* re.match("^" + allowed_chars + "+$", s) for a character class: one or more
\* characters of the class up to the end of s, where "$" also matches just
\* before a newline that is the last character of s.
ReMatch(allowed, s) ==
    LET n == Len(s)
    IN  \/ n >= 1 /\ \A i \in 1..n : s[i] \in allowed
        \/ n >= 2 /\ s[n] = "\n" /\ \A i \in 1..(n - 1) : s[i] \in allowed

validate_input(value, config) ==
    IF ~IsStr(value)
    THEN TemplateError("Value must be a string")
    ELSE LET c == ConfigOrDefault(config)
             v == IF c.strip_whitespace THEN Strip(value.val) ELSE value.val
         IN  IF Len(v) < c.min_length \/ Len(v) > c.max_length
             THEN Return(FALSE)
             ELSE IF ~ReMatch(c.allowed_chars, v)
             THEN Return(FALSE)
             ELSE Return(TRUE)

(* ---------------------------- process_data ----------------------------- *)

\* The part of the result every branch shares.
ResultBase(data, c) ==
    [input_type |-> data.type,
     processed_at |-> "timestamp_placeholder",
     config_used |-> [max_length |-> c.max_length, min_length |-> c.min_length]]

Processed(s, c) == IF c.strip_whitespace THEN Strip(s) ELSE s

ProcessStrAlwaysStrip(data, c) ==
    LET processed_data == Strip(data.val)
    IN  Return(ResultBase(data, c) @@
               [processed_data |-> Str(processed_data),
                valid |-> validate_input(data, c).ret,
                length |-> Len(processed_data)])

\* isinstance(data, str) branch
ProcessStr(data, c) ==
    LET processed_data == Processed(data.val, c)
    IN  Return(ResultBase(data, c) @@
               [processed_data |-> Str(processed_data),
                valid |-> validate_input(data, c).ret,
                length |-> Len(processed_data)])

\* "for item in data" of the list branch, from element i on, with the
\* accumulators processed_items and valid_items.
RECURSIVE ListLoop(_, _, _, _, _)
ListLoop(items, i, c, processed_items, valid_items) ==
    IF i > Len(items)
    THEN Return([processed_items |-> processed_items, valid_items |-> valid_items])
    ELSE IF IsStr(items[i])
    THEN LET processed_item == Processed(items[i].val, c)
             is_valid == validate_input(items[i], c).ret
         IN  ListLoop(items, i + 1, c,
                      Append(processed_items,
                             [value |-> Str(processed_item),
                              valid |-> is_valid,
                              length |-> Len(processed_item)]),
                      IF is_valid THEN valid_items + 1 ELSE valid_items)
    ELSE TemplateError("List items must be strings")

ProcessListAnyValid(data, c) ==
    LET loop == ListLoop(data.val, 1, c, <<>>, 0)
    IN  IF loop.raised THEN loop
        ELSE Return(ResultBase(data, c) @@
                    [processed_data |-> loop.ret.processed_items,
                     total_items |-> Len(data.val),
                     valid_items |-> loop.ret.valid_items,
                     valid |-> (loop.ret.valid_items > 0)])

\* isinstance(data, list) branch
ProcessList(data, c) ==
    LET loop == ListLoop(data.val, 1, c, <<>>, 0)
    IN  IF loop.raised THEN loop
        ELSE Return(ResultBase(data, c) @@
                    [processed_data |-> loop.ret.processed_items,
                     total_items |-> Len(data.val),
                     valid_items |-> loop.ret.valid_items,
                     valid |-> (loop.ret.valid_items = Len(data.val))])

\* d[key] = rec on a dict kept as a sequence of entries: an existing key keeps
\* its position and gets the new record, a new key is appended.
DictSet(d, key, rec) ==
    IF \E j \in 1..Len(d) : d[j][1] = key
    THEN [j \in 1..Len(d) |-> IF d[j][1] = key THEN <<key, rec>> ELSE d[j]]
    ELSE Append(d, <<key, rec>>)

\* "for key, value in data.items()" of the dict branch, from entry i on.
RECURSIVE DictLoop(_, _, _, _, _)
DictLoop(entries, i, c, processed_dict, valid_keys) ==
    IF i > Len(entries)
    THEN Return([processed_dict |-> processed_dict, valid_keys |-> valid_keys])
    ELSE LET key == entries[i][1]
             value == entries[i][2]
         IN  IF ~IsStr(key)
             THEN TemplateError("Dictionary keys must be strings")
             ELSE LET key_valid == validate_input(key, c).ret
                      processed_key == Str(Processed(key.val, c))
                  IN  DictLoop(entries, i + 1, c,
                               DictSet(processed_dict, processed_key,
                                       [original_value |-> value,
                                        key_valid |-> key_valid,
                                        value_type |-> value.type]),
                               IF key_valid THEN valid_keys + 1 ELSE valid_keys)

\* isinstance(data, dict) branch
ProcessDict(data, c) ==
    LET loop == DictLoop(data.val, 1, c, <<>>, 0)
    IN  IF loop.raised THEN loop
        ELSE Return(ResultBase(data, c) @@
                    [processed_data |-> loop.ret.processed_dict,
                     total_keys |-> Len(data.val),
                     valid_keys |-> loop.ret.valid_keys,
                     valid |-> (loop.ret.valid_keys = Len(data.val))])

process_data_lenient(data, config) ==
    LET c == ConfigOrDefault(config)
    IN  IF data.type = "str" THEN ProcessStr(data, c)
        ELSE IF data.type = "list" THEN ProcessList(data, c)
        ELSE IF data.type = "dict" THEN ProcessDict(data, c)
        ELSE Return(ResultBase(data, c))

process_data(data, config) ==
    LET c == ConfigOrDefault(config)
    IN  IF data.type = "str" THEN ProcessStr(data, c)
        ELSE IF data.type = "list" THEN ProcessList(data, c)
        ELSE IF data.type = "dict" THEN ProcessDict(data, c)
        ELSE TemplateError("Unsupported data type")

(* ---------------------------- the program ------------------------------ *)

\* What the last operation was called with and what it gave back.
Outcome(op, params, r) ==
    [op |-> op, params |-> params, raised |-> r.raised, ret |-> r.ret]

NoOutcome == Outcome("none", <<>>, Return(NoneValue))

\* A caller holding an input and a constructed (or omitted) configuration.
Init ==
    /\ arg \in Args
    /\ cfg \in Configs
    /\ result = NoOutcome

\* A caller holding a scalar input and no configuration yet.
InitConfig ==
    /\ arg \in Scalars
    /\ cfg = NoneValue
    /\ result = NoOutcome

\* config = TemplateConfig(max_length=max, min_length=min, ...)
Construct ==
    \E max \in 0..MaxBound, min \in 0..MaxBound,
       allowed \in AllowedClasses, strip \in BOOLEAN :
        LET r == TemplateConfig(max, min, allowed, strip)
        IN  /\ result' = Outcome("TemplateConfig", <<max, min>>, r)
            /\ cfg' = IF r.raised THEN cfg ELSE r.ret
            /\ UNCHANGED arg

\* config.<field> = v: the dataclass is not frozen, so the assignment
\* succeeds and __post_init__ is not run again.
SetField ==
    /\ cfg # NoneValue
    /\ \/ \E v \in 0..MaxBound : cfg' = [cfg EXCEPT !.max_length = v]
       \/ \E v \in 0..MaxBound : cfg' = [cfg EXCEPT !.min_length = v]
       \/ \E v \in AllowedClasses : cfg' = [cfg EXCEPT !.allowed_chars = v]
       \/ \E v \in BOOLEAN : cfg' = [cfg EXCEPT !.strip_whitespace = v]
    /\ result' = Outcome("setattr", <<>>, Return(NoneValue))
    /\ UNCHANGED arg

\* hello_entirius(arg); arg = None is the omitted argument
Hello ==
    /\ result' = Outcome("hello_entirius", <<>>, hello_entirius(arg))
    /\ UNCHANGED <<arg, cfg>>

\* validate_input(arg, cfg); cfg = None is the omitted configuration
Validate ==
    /\ result' = Outcome("validate_input", <<>>, validate_input(arg, cfg))
    /\ UNCHANGED <<arg, cfg>>

\* A process_data that writes the processed items back into the caller's list.
ProcessInPlace ==
    /\ result' = Outcome("process_data", <<>>, process_data(arg, cfg))
    /\ arg' = IF arg.type = "list" /\ ~result'.raised
              THEN List([i \in 1..Len(arg.val) |-> result'.ret.processed_data[i].value])
              ELSE arg
    /\ UNCHANGED cfg

\* process_data(arg, cfg)
Process ==
    /\ result' = Outcome("process_data", <<>>, process_data(arg, cfg))
    /\ UNCHANGED <<arg, cfg>>

Next == Hello \/ Validate \/ Process

Spec == Init /\ [][Next]_vars

NextConfig == Construct \/ SetField \/ Hello \/ Validate \/ Process

SpecConfig == InitConfig /\ [][NextConfig]_vars

(* ---------------------------- claims ----------------------------------- *)

\* The configuration a call made in this state works with.
Effective == ConfigOrDefault(cfg)

\* The value validate_input measures: arg after the configured stripping.
Measured == IF Effective.strip_whitespace THEN Strip(arg.val) ELSE arg.val

ValidateReturned == result.op = "validate_input" /\ IsStr(arg)

ProcessReturned == result.op = "process_data" /\ ~result.raised

AllText(items) == \A i \in 1..Len(items) : IsStr(items[i])

AllTextKeys(entries) == \A i \in 1..Len(entries) : IsStr(entries[i][1])

\* C1: validate_input returns true exactly when the value, trimmed if
\* strip_whitespace is set, has min_length <= length <= max_length and every
\* one of its characters belongs to the allowed class.  Stated for the values
\* that are not empty after the trimming; the empty one is C10's case.
C1_ValidateIffLengthAndClass ==
    (ValidateReturned /\ Measured # <<>>) =>
        /\ ~result.raised
        /\ result.ret = (/\ Effective.min_length <= Len(Measured)
                         /\ Len(Measured) <= Effective.max_length
                         /\ \A i \in 1..Len(Measured) :
                                Measured[i] \in Effective.allowed_chars)

\* C2: constructing a TemplateConfig fails with a TemplateError exactly when
\* max_length < min_length, and otherwise produces the configuration with the
\* given bounds; equal bounds are accepted.
C2_ConstructIffBoundsOrdered ==
    result.op = "TemplateConfig" =>
        LET max == result.params[1]
            min == result.params[2]
        IN  /\ result.raised <=> max < min
            /\ result.raised => result.ret.type = "TemplateError"
            /\ ~result.raised =>
                  /\ result.ret.type = "TemplateConfig"
                  /\ result.ret.max_length = max
                  /\ result.ret.min_length = min
                  /\ cfg = result.ret

C2_Witness ==
    /\ result.op = "TemplateConfig"
    /\ ~result.raised
    /\ result.params[1] = result.params[2]

\* C3: every existing TemplateConfig has max_length >= min_length, whatever
\* operations (construction, field assignment, calls) were applied to it.
C3_ConfigBoundsOrdered ==
    cfg # NoneValue => cfg.max_length >= cfg.min_length

C5_DictResult ==
    (result.op = "process_data" /\ arg.type = "dict" /\ AllTextKeys(arg.val)) =>
        /\ ~result.raised
        /\ LET r == result.ret
               pd == r.processed_data
           IN  /\ r.total_keys = Len(arg.val)
               /\ Len(pd) = r.total_keys
               /\ r.valid_keys = Cardinality({j \in 1..Len(pd) : pd[j][2].key_valid})
               /\ \A i \in 1..Len(arg.val) : \E j \in 1..Len(pd) :
                     /\ pd[j][2].original_value = arg.val[i][2]
                     /\ pd[j][2].value_type = arg.val[i][2].type
               /\ r.valid = (r.valid_keys = r.total_keys)

\* The inputs process_data has to refuse, with the message it refuses them with.
Refusal ==
    IF arg.type = "list"
    THEN IF AllText(arg.val) THEN "" ELSE "List items must be strings"
    ELSE IF arg.type = "dict"
    THEN IF AllTextKeys(arg.val) THEN "" ELSE "Dictionary keys must be strings"
    ELSE IF arg.type = "str" THEN "" ELSE "Unsupported data type"

\* C6: process_data raises a TemplateError, and returns nothing, exactly for a
\* list with a non-text element, a dict with a non-text key, or an input that
\* is neither text, list nor dict; any other input gets a result.
C6_RefusesExactlyBadInput ==
    result.op = "process_data" =>
        /\ result.raised <=> Refusal # ""
        /\ result.raised =>
              result.ret = [type |-> "TemplateError", val |-> Refusal]
        /\ ~result.raised =>
              /\ result.ret.input_type = arg.type
              /\ "processed_data" \in DOMAIN result.ret

C6_Witness ==
    /\ result.op = "process_data"
    /\ result.raised
    /\ arg.type = "list"
    /\ Len(arg.val) = 2
    /\ IsStr(arg.val[1])

\* C7: the validity process_data reports is validate_input of the processed
\* value it reports: for a text, valid = validate_input(processed_data) and
\* length = len(processed_data); for a list, each record's valid =
\* validate_input(record.value).
C7_ValidAgreesWithValidate ==
    ProcessReturned =>
        /\ arg.type = "str" =>
              /\ result.ret.valid = validate_input(result.ret.processed_data, cfg).ret
              /\ result.ret.length = Len(result.ret.processed_data.val)
        /\ arg.type = "list" =>
              \A i \in 1..Len(result.ret.processed_data) :
                  result.ret.processed_data[i].valid =
                      validate_input(result.ret.processed_data[i].value, cfg).ret

C7_Witness ==
    /\ ProcessReturned
    /\ arg.type = "str"
    /\ result.ret.processed_data # arg
    /\ result.ret.valid

Greeting(name) ==
    <<"H", "e", "l", "l", "o", ",", " ">> \o name \o
    <<"!", " ", "W", "e", "l", "c", "o", "m", "e", " ", "t", "o", " ",
      "E", "n", "t", "i", "r", "i", "u", "s", ".">>

\* C8: hello_entirius returns "Hello, " + name + "! Welcome to Entirius." for
\* every text name (the empty one too), greets "World" when the name is
\* absent, and raises a TemplateError for every other value.
C8_Greeting ==
    result.op = "hello_entirius" =>
        IF IsStr(arg)
        THEN ~result.raised /\ result.ret = Str(Greeting(arg.val))
        ELSE IF arg = NoneValue
        THEN ~result.raised /\ result.ret = Str(Greeting(<<"W", "o", "r", "l", "d">>))
        ELSE result.raised /\ result.ret.type = "TemplateError"

C8_Witness ==
    /\ result.op = "hello_entirius"
    /\ arg = Str(<<>>)
    /\ ~result.raised

\* C9: a call of validate_input or process_data leaves the configuration and
\* the input data as they were, and repeating the call gives the same result.
C9_CallsArePure ==
    [][/\ result'.op \in {"validate_input", "process_data"} =>
            arg' = arg /\ cfg' = cfg
       /\ (result.op = result'.op /\ result.op \in {"validate_input", "process_data"}) =>
            result' = result]_vars

C9_Witness ==
    /\ ProcessReturned
    /\ arg.type = "list"
    /\ \E i \in 1..Len(arg.val) : result.ret.processed_data[i].value # arg.val[i]

\* C10: validate_input returns false for every value that is empty after the
\* configured stripping, also when min_length = 0.
C10_EmptyNeverAccepted ==
    (ValidateReturned /\ Measured = <<>>) =>
        ~result.raised /\ result.ret = FALSE

C10_Witness ==
    /\ ValidateReturned
    /\ Measured = <<>>
    /\ arg.val # <<>>
    /\ Effective.min_length = 0

====
